---------------------------- MODULE Spec2Model ----------------------------
(***************************************************************************)
(* Model of the two scripts of apps-repository-template/scripts:           *)
(*   validate-plugins.py   (validate_semver, validate_plugin_id,           *)
(*                          validate_plugin_manifest, main)                *)
(*   generate-registry.py  (find_plugin_manifests, load_plugin_manifest,   *)
(*                          generate_registry)                             *)
(*                                                                         *)
(* A Python str is a sequence of one-character strings; the character      *)
(* "U+D800" stands for a lone surrogate, which json.load accepts from the  *)
(* escape \ud800 and which the utf-8 codec refuses to encode.  A JSON      *)
(* value is a tagged record: Str(s), Num(n), List(items), Dict(d).         *)
(*                                                                         *)
(* A plugin.json is text that is not JSON, or a JSON object; its field     *)
(* values are strings, numbers, arrays or objects.  An exception that      *)
(* nothing catches ends the script at pc = "raised".                       *)
(***************************************************************************)
EXTENDS Integers, Sequences, FiniteSets, TLC

(* ------------------------------ bounds -------------------------------- *)

\* entries of the plugins root that validate-plugins.py runs over
MaxDirs == 3
\* entries of the plugins root that generate-registry.py runs over
MaxGenDirs == 2
\* length of the version strings that are enumerated exhaustively
MaxVerLen == 6
\* length of the id strings that are enumerated exhaustively
MaxIdLen == 4
\* consecutive runs of generate_registry() on the same plugins root
MaxRuns == 2

(* --------------------------- JSON values ------------------------------ *)

Str(s) == [t |-> "str", s |-> s]
Num(n) == [t |-> "num", n |-> n]
List(items) == [t |-> "list", items |-> items]
Dict(d) == [t |-> "dict", d |-> d]
\* Python's None
None == [t |-> "none"]
\* Python's False
PyFalse == [t |-> "bool", b |-> FALSE]

IsStr(v) == v.t = "str"

(* ---------------------- Python string operations ---------------------- *)

\* s.split(sep) for a one-character separator: the segments between the
\* separators, empty segments kept; ''.split('.') is [''].
RECURSIVE SplitFrom(_, _, _, _)
SplitFrom(s, sep, i, cur) ==
    IF i > Len(s) THEN <<cur>>
    ELSE IF s[i] = sep THEN <<cur>> \o SplitFrom(s, sep, i + 1, <<>>)
    ELSE SplitFrom(s, sep, i + 1, Append(cur, s[i]))

Split(s, sep) == SplitFrom(s, sep, 1, <<>>)

Digits == {"0", "1", "2", "3", "4", "5", "6", "7", "8", "9"}
Whitespace == {" "}

RECURSIVE LStrip(_)
LStrip(s) == IF s # <<>> /\ Head(s) \in Whitespace THEN LStrip(Tail(s)) ELSE s

RECURSIVE RStrip(_)
RStrip(s) ==
    IF s # <<>> /\ s[Len(s)] \in Whitespace
    THEN RStrip(SubSeq(s, 1, Len(s) - 1)) ELSE s

\* Whether int(part) returns (TRUE) or raises ValueError (FALSE): surrounding
\* whitespace is stripped, one sign '+' or '-' is accepted, then decimal
\* digits with single underscores between digits.
IntParses(part) ==
    LET stripped == RStrip(LStrip(part))
        body == IF stripped # <<>> /\ Head(stripped) \in {"+", "-"}
                THEN Tail(stripped) ELSE stripped
    IN  /\ body # <<>>
        /\ \A i \in 1..Len(body) : body[i] \in Digits \cup {"_"}
        /\ body[1] \in Digits
        /\ body[Len(body)] \in Digits
        /\ \A i \in 1..(Len(body) - 1) : ~(body[i] = "_" /\ body[i + 1] = "_")

\* sep.join(items) for a sequence of strings
RECURSIVE Join(_, _)
Join(sep, items) ==
    IF items = <<>> THEN <<>>
    ELSE IF Len(items) = 1 THEN items[1]
    ELSE items[1] \o sep \o Join(sep, Tail(items))

(* ----------------------- validate-plugins.py -------------------------- *)

\* REQUIRED_FIELDS with 'icon' forgotten.
REQUIRED_FIELDS_WithoutIcon == <<"id", "name", "version", "author", "description", "category">>

REQUIRED_FIELDS == <<"id", "name", "version", "author", "description", "icon", "category">>

VALID_CATEGORIES ==
    << <<"s","t","o","r","a","g","e">>,
       <<"m","e","d","i","a">>,
       <<"c","o","m","m","u","n","i","c","a","t","i","o","n">>,
       <<"d","e","v","e","l","o","p","m","e","n","t">>,
       <<"m","o","n","i","t","o","r","i","n","g">>,
       <<"n","e","t","w","o","r","k","i","n","g">>,
       <<"p","r","o","d","u","c","t","i","v","i","t","y">>,
       <<"s","e","c","u","r","i","t","y">>,
       <<"u","t","i","l","i","t","i","e","s">> >>

Range(seq) == {seq[i] : i \in 1..Len(seq)}

\* validate_semver(version) for a str: at least three segments, the first
\* three accepted by int().
validate_semver(version) ==
    LET parts == Split(version, ".")
    IN  IF Len(parts) < 3 THEN FALSE
        ELSE \A i \in 1..3 : IntParses(parts[i])

\* validate_plugin_id with `>` for `>=`.
validate_plugin_id_MoreThanThree(plugin_id) ==
    IF plugin_id = <<>> THEN FALSE
    ELSE Len(Split(plugin_id, ".")) > 3

\* validate_plugin_id(plugin_id) for a str: the empty string is falsy.
validate_plugin_id(plugin_id) ==
    IF plugin_id = <<>> THEN FALSE
    ELSE Len(Split(plugin_id, ".")) >= 3

\* The messages of validate_plugin_manifest, by rule.
MissingFieldError(field) == [msg |-> "Missing required field", field |-> field]
IdFormatError(v) == [msg |-> "Invalid plugin ID format", id |-> v]
VersionWarning(v) == [msg |-> "doesn't follow semantic versioning", version |-> v]
CategoryError(v) ==
    [msg |-> "Invalid category", category |-> v,
     must_be_one_of |-> Join(<<",", " ">>, VALID_CATEGORIES)]
ShortDescriptionWarning(n) == [msg |-> "Description is very short", len |-> n]
LongDescriptionWarning(n) == [msg |-> "Description is very long", len |-> n]
NameTooShortError == [msg |-> "Plugin name is too short"]
AuthorEmailWarning == [msg |-> "Author field should not contain email"]
InvalidJsonError == [msg |-> "Invalid JSON"]
MissingManifestWarning(dirname) == [msg |-> "Missing plugin.json", dir |-> dirname]

Has(data, field) == field \in DOMAIN data

\* The required-field loop, in the order of REQUIRED_FIELDS.
RECURSIVE MissingFields(_, _)
MissingFields(data, fields) ==
    IF fields = <<>> THEN <<>>
    ELSE (IF Has(data, Head(fields)) THEN <<>>
          ELSE <<MissingFieldError(Head(fields))>>)
         \o MissingFields(data, Tail(fields))

\* The id rule.  A value that is not a str: a falsy one (0) is rejected by
\* `not plugin_id`, any other has no split() and raises AttributeError.
IdRaises(data) ==
    Has(data, "id") /\ ~IsStr(data["id"]) /\ ~(data["id"].t = "num" /\ data["id"].n = 0)

IdErrors(data) ==
    IF ~Has(data, "id") THEN <<>>
    ELSE IF IsStr(data["id"])
         THEN (IF validate_plugin_id(data["id"].s) THEN <<>> ELSE <<IdFormatError(data["id"])>>)
         ELSE <<IdFormatError(data["id"])>>

\* The version rule; a version that is not a str has no split().
VersionRaises(data) == Has(data, "version") /\ ~IsStr(data["version"])

VersionWarnings(data) ==
    IF Has(data, "version") /\ IsStr(data["version"]) /\ ~validate_semver(data["version"].s)
    THEN <<VersionWarning(data["version"])>> ELSE <<>>

\* The category rule: membership in VALID_CATEGORIES, for any value.
CategoryErrors(data) ==
    IF Has(data, "category")
       /\ ~(IsStr(data["category"]) /\ data["category"].s \in Range(VALID_CATEGORIES))
    THEN <<CategoryError(data["category"])>> ELSE <<>>

\* The description rule; len() of a number raises TypeError.
DescriptionRaises(data) == Has(data, "description") /\ ~IsStr(data["description"])

DescriptionWarnings(data) ==
    IF Has(data, "description") /\ IsStr(data["description"])
    THEN LET desc_len == Len(data["description"].s)
         IN  IF desc_len < 20 THEN <<ShortDescriptionWarning(desc_len)>>
             ELSE IF desc_len > 200 THEN <<LongDescriptionWarning(desc_len)>>
             ELSE <<>>
    ELSE <<>>

\* The name rule; len() of a number raises TypeError.
NameRaises(data) == Has(data, "name") /\ ~IsStr(data["name"])

NameErrors(data) ==
    IF Has(data, "name") /\ IsStr(data["name"]) /\ Len(data["name"].s) < 3
    THEN <<NameTooShortError>> ELSE <<>>

\* The author rule; '@' in <number> raises TypeError.
AuthorRaises(data) == Has(data, "author") /\ ~IsStr(data["author"])

AuthorWarnings(data) ==
    IF Has(data, "author") /\ IsStr(data["author"]) /\ "@" \in Range(data["author"].s)
    THEN <<AuthorEmailWarning>> ELSE <<>>

\* validate_plugin_manifest for the three contents a plugin.json can have:
\* text that is not JSON, or a JSON object `data`.  The result is either
\* (errors, warnings) or an exception that leaves the function.
validate_plugin_manifest(manifest) ==
    IF manifest.kind = "malformed"
    THEN [raised |-> FALSE, errors |-> <<InvalidJsonError>>, warnings |-> <<>>]
    ELSE LET data == manifest.data
         IN  IF \/ IdRaises(data) \/ VersionRaises(data) \/ DescriptionRaises(data)
                \/ NameRaises(data) \/ AuthorRaises(data)
             THEN [raised |-> TRUE, errors |-> <<>>, warnings |-> <<>>]
             ELSE [raised |-> FALSE,
                   errors |-> MissingFields(data, REQUIRED_FIELDS) \o IdErrors(data)
                              \o CategoryErrors(data) \o NameErrors(data),
                   warnings |-> VersionWarnings(data) \o DescriptionWarnings(data)
                                \o AuthorWarnings(data)]


(* ------------------------- the plugins root --------------------------- *)

\* What a plugin directory holds in place of plugin.json.
NoManifest == [kind |-> "absent"]
Malformed == [kind |-> "malformed"]
Json(data) == [kind |-> "json", data |-> data]

\* An entry of the plugins root: a plain file, or a directory.
PlainFile == [is_dir |-> FALSE, manifest |-> NoManifest]
PluginDir(manifest) == [is_dir |-> TRUE, manifest |-> manifest]

\* The orders in which Path.iterdir() can yield n entries: it promises none.
IterdirOrders(n) ==
    {p \in [1..n -> 1..n] : \A a, b \in 1..n : a # b => p[a] # p[b]}

VARIABLES
    plugins_dir,    \* the entries of plugins/, entry k being named Slug(k)
    pc,             \* position of the running script
    listing,        \* the order iterdir() yields the entries in, this run
    todo,           \* the entries (or manifests) the loop has not reached yet
    all_errors,     \* main(): all_errors
    all_warnings,   \* main(): all_warnings
    errors,         \* main(): errors of the last validate_plugin_manifest call
    warnings,       \* main(): warnings of the last validate_plugin_manifest call
    total_printed,  \* main(): the number after "Total plugins checked:", -1 before
    exit_status,    \* the process's exit status, -1 while it runs
    plugins,        \* generate_registry(): plugins
    registry_file,  \* the content of registry.json
    prev_registry,  \* the content of registry.json when the current run began
    file_opens,     \* how often the current run opened registry.json for writing
    run             \* number of the current generate_registry() run; its clock

vars == <<plugins_dir, pc, listing, todo, all_errors, all_warnings, errors, warnings,
          total_printed, exit_status, plugins, registry_file, prev_registry,
          file_opens, run>>

generator_vars == <<plugins, registry_file, prev_registry, file_opens, run>>
validator_vars == <<all_errors, all_warnings, errors, warnings, total_printed, exit_status>>

(* ---------------------- validate-plugins.py main ---------------------- *)

\* main() ending with sys.exit(0) whatever it recorded.
ExitStatusAlwaysZero(errs) == 0

\* `if all_errors: sys.exit(1) else: sys.exit(0)`
ExitStatusFor(errs) == IF errs # <<>> THEN 1 ELSE 0

\* main() begins to iterate PLUGINS_DIR.iterdir().
MainStart ==
    /\ pc = "start"
    /\ \E order \in IterdirOrders(Len(plugins_dir)) :
          /\ listing' = order
          /\ todo' = order
    /\ pc' = "loop"
    /\ UNCHANGED <<plugins_dir, validator_vars, generator_vars>>

\* `if not plugin_dir.is_dir(): continue`
MainSkipNonDir ==
    /\ pc = "loop" /\ todo # <<>>
    /\ ~plugins_dir[Head(todo)].is_dir
    /\ todo' = Tail(todo)
    /\ UNCHANGED <<plugins_dir, pc, listing, validator_vars, generator_vars>>

\* main() recording a missing plugin.json among the errors.
MainMissingManifestAsError ==
    /\ pc = "loop" /\ todo # <<>>
    /\ plugins_dir[Head(todo)].is_dir
    /\ plugins_dir[Head(todo)].manifest = NoManifest
    /\ all_errors' = Append(all_errors, MissingManifestWarning(Head(todo)))
    /\ todo' = Tail(todo)
    /\ UNCHANGED <<plugins_dir, pc, listing, all_warnings, errors, warnings,
                   total_printed, exit_status, generator_vars>>

\* `if not manifest_file.exists():` one warning, then continue.
MainMissingManifest ==
    /\ pc = "loop" /\ todo # <<>>
    /\ plugins_dir[Head(todo)].is_dir
    /\ plugins_dir[Head(todo)].manifest = NoManifest
    /\ all_warnings' = Append(all_warnings, MissingManifestWarning(Head(todo)))
    /\ todo' = Tail(todo)
    /\ UNCHANGED <<plugins_dir, pc, listing, all_errors, errors, warnings,
                   total_printed, exit_status, generator_vars>>

\* validate_plugin_manifest returns; both lists are appended to the totals.
MainValidate ==
    /\ pc = "loop" /\ todo # <<>>
    /\ plugins_dir[Head(todo)].is_dir
    /\ plugins_dir[Head(todo)].manifest # NoManifest
    /\ LET r == validate_plugin_manifest(plugins_dir[Head(todo)].manifest)
       IN  /\ ~r.raised
           /\ errors' = r.errors
           /\ warnings' = r.warnings
           /\ all_errors' = all_errors \o r.errors
           /\ all_warnings' = all_warnings \o r.warnings
    /\ todo' = Tail(todo)
    /\ UNCHANGED <<plugins_dir, pc, listing, total_printed, exit_status, generator_vars>>

\* validate_plugin_manifest raises (AttributeError, TypeError); nothing in
\* main() catches it, and the interpreter ends with a traceback and status 1.
MainUnhandled ==
    /\ pc = "loop" /\ todo # <<>>
    /\ plugins_dir[Head(todo)].is_dir
    /\ plugins_dir[Head(todo)].manifest # NoManifest
    /\ validate_plugin_manifest(plugins_dir[Head(todo)].manifest).raised
    /\ pc' = "raised"
    /\ exit_status' = 1
    /\ UNCHANGED <<plugins_dir, listing, todo, all_errors, all_warnings, errors,
                   warnings, total_printed, generator_vars>>

\* The summary and sys.exit; the total is len(list(PLUGINS_DIR.iterdir())).
MainSummary ==
    /\ pc = "loop" /\ todo = <<>>
    /\ total_printed' = Len(plugins_dir)
    /\ exit_status' = ExitStatusFor(all_errors)
    /\ pc' = "exited"
    /\ UNCHANGED <<plugins_dir, listing, todo, all_errors, all_warnings, errors,
                   warnings, generator_vars>>

(* --------------------- inputs of the validator ------------------------ *)

Absent == [t |-> "absent"]

\* A manifest object from one choice per field; Absent leaves the key out.
Manifest(choice) ==
    [k \in {f \in DOMAIN choice : choice[f] # Absent} |-> choice[k]]

Repeat(c, n) == [i \in 1..n |-> c]

StringsUpTo(chars, n) == UNION {[1..k -> chars] : k \in 0..n}

GoodId == Str(<<"a", ".", "b", ".", "c">>)
GoodName == Str(<<"T", "o", "o", "l">>)
GoodVersion == Str(<<"1", ".", "2", ".", "3">>)
GoodAuthor == Str(<<"A", "c", "m", "e">>)
GoodDescription == Str(Repeat("A", 25))
GoodIcon == Str(<<"U+1F527">>)
GoodCategory == Str(<<"u","t","i","l","i","t","i","e","s">>)

Fields(i, n, v, a, d, ic, c) ==
    [id |-> i, name |-> n, version |-> v, author |-> a, description |-> d,
     icon |-> ic, category |-> c]

\* Every field absent, as the rule wants it, or as the rule rejects it.
PresenceManifests ==
    {Manifest(Fields(i, n, v, a, d, ic, c)) :
        i \in {Absent, GoodId, Str(<<"t", "o", "o", "l">>)},
        n \in {Absent, GoodName, Str(<<"a", "b">>)},
        v \in {Absent, GoodVersion, Str(<<"1">>)},
        a \in {Absent, GoodAuthor, Str(<<"a", "@", "b">>)},
        d \in {Absent, GoodDescription, Str(Repeat("A", 5)), Str(Repeat("A", 201))},
        ic \in {Absent, GoodIcon},
        c \in {Absent, GoodCategory, Str(<<"b", "o", "g", "u", "s">>)}}

\* Every field a string or a number.
TypedManifests ==
    {Manifest(Fields(i, n, v, a, d, ic, c)) :
        i \in {GoodId, Num(0), Num(5)},
        n \in {GoodName, Num(5)},
        v \in {GoodVersion, Num(5)},
        a \in {GoodAuthor, Num(5)},
        d \in {GoodDescription, Num(5)},
        ic \in {GoodIcon, Num(5)},
        c \in {GoodCategory, Num(5)}}

VersionChars == {"1", ".", "-", "b"}
IdChars == {"a", "."}

\* Every version string up to MaxVerLen, in an otherwise clean manifest.
VersionManifests ==
    {Manifest(Fields(GoodId, GoodName, Str(v), GoodAuthor, GoodDescription,
                     GoodIcon, GoodCategory)) :
        v \in StringsUpTo(VersionChars, MaxVerLen)}

\* Every id string up to MaxIdLen, in an otherwise clean manifest.
IdManifests ==
    {Manifest(Fields(Str(i), GoodName, GoodVersion, GoodAuthor, GoodDescription,
                     GoodIcon, GoodCategory)) :
        i \in StringsUpTo(IdChars, MaxIdLen)}

GoodManifest ==
    Manifest(Fields(GoodId, GoodName, GoodVersion, GoodAuthor, GoodDescription,
                    GoodIcon, GoodCategory))

\* The entries the roots of several entries are built from.
ValidatorEntries ==
    {PlainFile, PluginDir(NoManifest), PluginDir(Malformed),
     PluginDir(Json(GoodManifest)),
     PluginDir(Json(Manifest(Fields(GoodId, GoodName, Str(<<"1">>), Str(<<"a", "@", "b">>),
                                    GoodDescription, GoodIcon, GoodCategory)))),
     PluginDir(Json(Manifest(Fields(Str(<<"t", "o", "o", "l">>), GoodName, GoodVersion,
                                    GoodAuthor, GoodDescription, Absent,
                                    Str(<<"b", "o", "g", "u", "s">>))))),
     PluginDir(Json(Manifest(Fields(GoodId, Num(5), GoodVersion, GoodAuthor,
                                    GoodDescription, GoodIcon, GoodCategory))))}

ValidatorRoots ==
    StringsUpTo(ValidatorEntries, MaxDirs)
    \cup {<<PluginDir(Json(m))>> :
            m \in PresenceManifests \cup TypedManifests \cup VersionManifests \cup IdManifests}

NoFile == [kind |-> "absent"]

Init ==
    /\ plugins_dir \in ValidatorRoots
    /\ pc = "start"
    /\ listing = <<>>
    /\ todo = <<>>
    /\ all_errors = <<>>
    /\ all_warnings = <<>>
    /\ errors = <<>>
    /\ warnings = <<>>
    /\ total_printed = -1
    /\ exit_status = -1
    /\ plugins = <<>>
    /\ registry_file = NoFile
    /\ prev_registry = NoFile
    /\ file_opens = 0
    /\ run = 0

Next ==
    \/ MainStart
    \/ MainSkipNonDir
    \/ MainMissingManifest
    \/ MainValidate
    \/ MainUnhandled
    \/ MainSummary

\* One run of validate-plugins.py over a plugins root.
Spec == Init /\ [][Next]_vars


(* ----------------------- generate-registry.py ------------------------- *)

REPO_URL ==
    << "h", "t", "t", "p", "s", ":", "/", "/", "g", "i", "t", "h", "u", "b", ".", "c",
       "o", "m", "/", "S", "t", "u", "m", "p", "f", "-", "w", "o", "r", "k", "s", "/",
       "s", "t", "u", "m", "p", "f", "w", "o", "r", "k", "s", "-", "n", "a", "s", "-",
       "a", "p", "p", "s" >>

\* The literal pieces of the two f-strings of load_plugin_manifest.
TreePath == <<"/","t","r","e","e","/","m","a","i","n","/","p","l","u","g","i","n","s","/">>
ReleasePath == <<"/","r","e","l","e","a","s","e","s","/","d","o","w","n","l","o","a","d","/">>
DashV == <<"-","v">>
Slash == <<"/">>
TarGz == <<".","t","a","r",".","g","z">>

\* The characters '0'..'9', 'A'..'Z' and 'a'..'z', each in code point order.
DecimalDigits == << "0", "1", "2", "3", "4", "5", "6", "7", "8", "9" >>

UpperCase ==
    << "A", "B", "C", "D", "E", "F", "G", "H", "I", "J", "K", "L", "M",
       "N", "O", "P", "Q", "R", "S", "T", "U", "V", "W", "X", "Y", "Z" >>

LowerCase ==
    << "a", "b", "c", "d", "e", "f", "g", "h", "i", "j", "k", "l", "m",
       "n", "o", "p", "q", "r", "s", "t", "u", "v", "w", "x", "y", "z" >>

IndexIn(seq, c) == CHOOSE i \in 1..Len(seq) : seq[i] = c

\* ord(c), which str comparison goes by, for the characters of the names.
CodePoint(c) ==
    IF c = "U+D800" THEN 55296
    ELSE IF c = "U+1F50C" THEN 128268
    ELSE IF c = "U+1F527" THEN 128295
    ELSE IF c \in Range(DecimalDigits) THEN 47 + IndexIn(DecimalDigits, c)
    ELSE IF c \in Range(UpperCase) THEN 64 + IndexIn(UpperCase, c)
    ELSE 96 + IndexIn(LowerCase, c)

\* The names of the entries of the plugins root: entry k is "p<k>".
Slug(k) == <<"p", DecimalDigits[k + 1]>>

\* a < b for two str: by the first differing character, a proper prefix first.
RECURSIVE StrLess(_, _)
StrLess(a, b) ==
    IF b = <<>> THEN FALSE
    ELSE IF a = <<>> THEN TRUE
    ELSE IF Head(a) = Head(b) THEN StrLess(Tail(a), Tail(b))
    ELSE CodePoint(Head(a)) < CodePoint(Head(b))

\* str(n) for n >= 0
RECURSIVE Decimal(_)
Decimal(n) ==
    IF n < 10 THEN <<DecimalDigits[n + 1]>>
    ELSE Decimal(n \div 10) \o <<DecimalDigits[(n % 10) + 1]>>

\* What an f-string puts for a value: a str as it is, a number in decimal.
Format(v) == IF IsStr(v) THEN v.s ELSE Decimal(v.n)

\* data.get(key, default) and data.get(key)
Get(data, key, default) == IF Has(data, key) THEN data[key] ELSE default

\* data.get(outer, {}).get(inner, default) raises AttributeError when the
\* value under `outer` is no object.
NestedRaises(data, outer) == Has(data, outer) /\ data[outer].t # "dict"

NestedGet(data, outer, inner, default) ==
    IF Has(data, outer) THEN Get(data[outer].d, inner, default) ELSE default

\* tags.extend(data['tags']): a list gives its items, a str its characters,
\* a number raises TypeError.
TagsRaises(data) == Has(data, "tags") /\ data["tags"].t \notin {"list", "str"}

ExtraTags(data) ==
    IF ~Has(data, "tags") THEN <<>>
    ELSE IF data["tags"].t = "list" THEN data["tags"].items
    ELSE [i \in 1..Len(data["tags"].s) |-> Str(<<data["tags"].s[i]>>)]

\* `repository_url = f"{REPO_URL}/tree/main/plugins/{plugin_dir}"`
RepositoryUrl(plugin_dir) == REPO_URL \o TreePath \o plugin_dir

\* `download_url = f"{REPO_URL}/releases/download/{plugin_dir}-v{version}/{plugin_dir}-v{version}.tar.gz"`
DownloadUrl(plugin_dir, version) ==
    REPO_URL \o ReleasePath \o plugin_dir \o DashV \o Format(version) \o Slash
    \o plugin_dir \o DashV \o Format(version) \o TarGz

\* load_plugin_manifest(manifest_file) for the manifest of entry k: the
\* registry entry, or an exception (json.load on text that is not JSON,
\* AttributeError, TypeError).
load_plugin_manifest(manifest, k) ==
    IF manifest.kind = "malformed" THEN [raised |-> TRUE]
    ELSE LET data == manifest.data
             plugin_dir == Slug(k)
             version == Get(data, "version", Str(<<"1", ".", "0", ".", "0">>))
             repository_url == RepositoryUrl(plugin_dir)
             category == Get(data, "category", GoodCategory)
         IN  IF \/ NestedRaises(data, "links") \/ NestedRaises(data, "requires")
                \/ TagsRaises(data)
             THEN [raised |-> TRUE]
             ELSE [raised |-> FALSE,
                   entry |->
                     [id |-> Get(data, "id", None),
                      name |-> Get(data, "name", None),
                      version |-> version,
                      author |-> Get(data, "author", None),
                      description |-> Get(data, "description", None),
                      icon |-> Get(data, "icon", Str(<<"U+1F50C">>)),
                      category |-> category,
                      repository_url |-> Str(repository_url),
                      download_url |-> Str(DownloadUrl(plugin_dir, version)),
                      homepage |-> NestedGet(data, "links", "homepage", Str(repository_url)),
                      min_nas_version |-> NestedGet(data, "requires", "minNasVersion",
                                                    Str(<<"0", ".", "1", ".", "0">>)),
                      require_docker |-> NestedGet(data, "requires", "docker", PyFalse),
                      required_ports |-> NestedGet(data, "requires", "ports", List(<<>>)),
                      screenshots |-> List(<<>>),
                      tags |-> List(<<category>> \o ExtraTags(data))]]

\* a < b on two sort keys, where Python defines it: two str, or two numbers.
Comparable(a, b) == (a.t = "str" /\ b.t = "str") \/ (a.t = "num" /\ b.t = "num")

KeyLess(a, b) == IF a.t = "str" THEN StrLess(a.s, b.s) ELSE a.n < b.n

\* list.sort compares every element with another one, so it raises
\* TypeError as soon as two of at least two keys cannot be compared.
SortRaises(entries) ==
    /\ Len(entries) >= 2
    /\ \E i, j \in 1..Len(entries) : ~Comparable(entries[i].name, entries[j].name)

\* `plugins.sort(key=lambda p: p['name'])`: ascending, and stable, so that
\* entries of equal name stay in the order they were appended in.
RECURSIVE InsertByName(_, _)
InsertByName(sorted, e) ==
    IF sorted = <<>> THEN <<e>>
    ELSE IF KeyLess(e.name, sorted[Len(sorted)].name)
         THEN Append(InsertByName(SubSeq(sorted, 1, Len(sorted) - 1), e), sorted[Len(sorted)])
         ELSE Append(sorted, e)

\* generate_registry() without the sort.
SortOmitted(entries) == entries

RECURSIVE SortByName(_)
SortByName(entries) ==
    IF entries = <<>> THEN <<>>
    ELSE InsertByName(SortByName(SubSeq(entries, 1, Len(entries) - 1)), entries[Len(entries)])

\* Whether the utf-8 codec refuses a value: a str holding a lone surrogate.
RECURSIVE Unencodable(_)
Unencodable(v) ==
    IF v.t = "str" THEN "U+D800" \in Range(v.s)
    ELSE IF v.t = "list" THEN \E i \in 1..Len(v.items) : Unencodable(v.items[i])
    ELSE FALSE

EntryUnencodable(e) == \E f \in DOMAIN e : Unencodable(e[f])

\* The registry document built from the sorted entries at clock reading now.
Registry(entries, now) ==
    [version |-> <<"1", ".", "0", ".", "0">>,
     updated |-> now,
     repository |-> REPO_URL,
     plugins |-> entries]

\* registry.json after json.dump and the trailing newline.
Document(doc) == [kind |-> "document", doc |-> doc]

\* registry.json after open(..., 'w') emptied it and json.dump raised at the
\* first entry it could not encode: the text before that entry.
Truncated(doc) ==
    LET bad == CHOOSE i \in 1..Len(doc.plugins) :
                  /\ EntryUnencodable(doc.plugins[i])
                  /\ \A j \in 1..(i - 1) : ~EntryUnencodable(doc.plugins[j])
    IN  [kind |-> "truncated", plugins |-> SubSeq(doc.plugins, 1, bad - 1)]

\* find_plugin_manifests(): the plugin.json files of the directories, in
\* the order iterdir() yields the directories in.
RECURSIVE FoundManifests(_, _)
FoundManifests(dir, order) ==
    IF order = <<>> THEN <<>>
    ELSE (IF dir[Head(order)].is_dir /\ dir[Head(order)].manifest # NoManifest
          THEN <<Head(order)>> ELSE <<>>)
         \o FoundManifests(dir, Tail(order))

\* generate_registry() is called: find_plugin_manifests(), `plugins = []`.
GenFind ==
    /\ pc \in {"start", "done", "raised"}
    /\ run < MaxRuns
    /\ run' = run + 1
    /\ prev_registry' = registry_file
    /\ file_opens' = 0
    /\ plugins' = <<>>
    /\ \E order \in IterdirOrders(Len(plugins_dir)) :
          /\ listing' = order
          /\ todo' = FoundManifests(plugins_dir, order)
    /\ pc' = "load"
    /\ UNCHANGED <<plugins_dir, registry_file, validator_vars>>

\* load_plugin_manifest returns an entry, which is appended.
GenLoad ==
    /\ pc = "load" /\ todo # <<>>
    /\ LET r == load_plugin_manifest(plugins_dir[Head(todo)].manifest, Head(todo))
       IN  /\ ~r.raised
           /\ plugins' = Append(plugins, r.entry)
    /\ todo' = Tail(todo)
    /\ UNCHANGED <<plugins_dir, pc, listing, registry_file, prev_registry, file_opens,
                   run, validator_vars>>

\* load_plugin_manifest raises: `except Exception` reports it and continues.
GenLoadError ==
    /\ pc = "load" /\ todo # <<>>
    /\ load_plugin_manifest(plugins_dir[Head(todo)].manifest, Head(todo)).raised
    /\ todo' = Tail(todo)
    /\ UNCHANGED <<plugins_dir, pc, listing, validator_vars, generator_vars>>

\* plugins.sort(...) after the loop.
GenSort ==
    /\ pc = "load" /\ todo = <<>>
    /\ ~SortRaises(plugins)
    /\ plugins' = SortByName(plugins)
    /\ pc' = "write"
    /\ UNCHANGED <<plugins_dir, listing, todo, registry_file, prev_registry, file_opens,
                   run, validator_vars>>

\* plugins.sort(...) raises TypeError, which nothing catches.
GenSortRaises ==
    /\ pc = "load" /\ todo = <<>>
    /\ SortRaises(plugins)
    /\ pc' = "raised"
    /\ plugins' = <<>>
    /\ listing' = <<>>
    /\ UNCHANGED <<plugins_dir, todo, registry_file, prev_registry, file_opens, run,
                   validator_vars>>

\* The registry is built and written: open(REGISTRY_FILE, 'w'), json.dump,
\* the newline.  The function returns and its locals are gone.
GenWrite ==
    /\ pc = "write"
    /\ \A i \in 1..Len(plugins) : ~EntryUnencodable(plugins[i])
    /\ registry_file' = Document(Registry(plugins, run))
    /\ file_opens' = file_opens + 1
    /\ pc' = "done"
    /\ plugins' = <<>>
    /\ listing' = <<>>
    /\ UNCHANGED <<plugins_dir, todo, prev_registry, run, validator_vars>>

\* open(REGISTRY_FILE, 'w') empties the file, then json.dump raises
\* UnicodeEncodeError at a str the codec refuses; nothing catches it.
GenWriteRaises ==
    /\ pc = "write"
    /\ \E i \in 1..Len(plugins) : EntryUnencodable(plugins[i])
    /\ registry_file' = Truncated(Registry(plugins, run))
    /\ file_opens' = file_opens + 1
    /\ pc' = "raised"
    /\ plugins' = <<>>
    /\ listing' = <<>>
    /\ UNCHANGED <<plugins_dir, todo, prev_registry, run, validator_vars>>

(* --------------------- inputs of the generator ------------------------ *)

PyTrue == [t |-> "bool", b |-> TRUE]

\* A second clean manifest of the same name as GoodManifest, with the
\* optional sections.
SameNameManifest ==
    [id |-> Str(<<"x", ".", "y", ".", "z">>), name |-> GoodName, version |-> GoodVersion,
     author |-> GoodAuthor, description |-> GoodDescription, icon |-> GoodIcon,
     category |-> Str(<<"m", "e", "d", "i", "a">>),
     tags |-> List(<<Str(<<"w", "e", "b">>)>>),
     links |-> Dict([homepage |-> Str(<<"h">>)]),
     requires |-> Dict([docker |-> PyTrue, ports |-> List(<<Num(80)>>)])]

\* A clean manifest whose name is lower case, and whose version is a
\* pre-release of four segments.
LowerCaseManifest ==
    Manifest(Fields(GoodId, Str(<<"a", "p", "p", "s">>), Str(<<"0", ".", "1", ".", "0", ".", "b">>),
                    GoodAuthor, GoodDescription, GoodIcon, GoodCategory))

\* No name and no version.
NamelessManifest ==
    Manifest(Fields(GoodId, Absent, Absent, GoodAuthor, GoodDescription, GoodIcon,
                    GoodCategory))

\* "name": "\ud800ab"
SurrogateManifest ==
    Manifest(Fields(GoodId, Str(<<"U+D800", "a", "b">>), GoodVersion, GoodAuthor,
                    GoodDescription, GoodIcon, GoodCategory))

\* "name": 5, "version": 2
NumberManifest ==
    Manifest(Fields(GoodId, Num(5), Num(2), GoodAuthor, GoodDescription, GoodIcon,
                    GoodCategory))

\* "links": "h"
BadLinksManifest ==
    [id |-> GoodId, name |-> GoodName, links |-> Str(<<"h">>)]

GeneratorEntries ==
    {PlainFile, PluginDir(NoManifest), PluginDir(Malformed)}
    \cup {PluginDir(Json(m)) :
            m \in {GoodManifest, SameNameManifest, LowerCaseManifest, NamelessManifest,
                   SurrogateManifest, NumberManifest, BadLinksManifest}}

GeneratorRoots == StringsUpTo(GeneratorEntries, MaxGenDirs)

\* registry.json before the first run: none, or the one of an empty root.
InitialRegistryFiles == {NoFile, Document(Registry(<<>>, 0))}

InitGen ==
    /\ plugins_dir \in GeneratorRoots
    /\ registry_file \in InitialRegistryFiles
    /\ prev_registry = registry_file
    /\ pc = "start"
    /\ listing = <<>>
    /\ todo = <<>>
    /\ all_errors = <<>>
    /\ all_warnings = <<>>
    /\ errors = <<>>
    /\ warnings = <<>>
    /\ total_printed = -1
    /\ exit_status = -1
    /\ plugins = <<>>
    /\ file_opens = 0
    /\ run = 0

NextGen ==
    \/ GenFind
    \/ GenLoad
    \/ GenLoadError
    \/ GenSort
    \/ GenSortRaises
    \/ GenWrite
    \/ GenWriteRaises

\* Up to MaxRuns runs of generate-registry.py over an unchanged plugins root.
SpecGen == InitGen /\ [][NextGen]_vars

(* ------------------- properties of the validator --------------------- *)

\* The entries main() has dealt with so far, in the order it met them.
Processed == SubSeq(listing, 1, Len(listing) - Len(todo))

HasManifest(k) == plugins_dir[k].is_dir /\ plugins_dir[k].manifest # NoManifest
LacksManifest(k) == plugins_dir[k].is_dir /\ plugins_dir[k].manifest = NoManifest

\* The entry the last iteration of the loop dealt with.
LastEntry == plugins_dir[Processed[Len(Processed)]]

\* The last iteration called validate_plugin_manifest on a JSON object, and
\* `errors`, `warnings` are what it returned.
ReturnedForObject ==
    /\ pc \in {"loop", "exited"}
    /\ Processed # <<>>
    /\ LastEntry.is_dir
    /\ LastEntry.manifest.kind = "json"

LastData == LastEntry.manifest.data

Count(seq, v) == Cardinality({i \in 1..Len(seq) : seq[i] = v})

\* The errors the rules find in the manifests of the entries of `order`.
RECURSIVE ErrorsIn(_)
ErrorsIn(order) ==
    IF order = <<>> THEN 0
    ELSE (IF HasManifest(Head(order))
          THEN Len(validate_plugin_manifest(plugins_dir[Head(order)].manifest).errors)
          ELSE 0)
         + ErrorsIn(Tail(order))

\* C1: when main() has gone through every entry of the plugins root, the exit
\* status is non-zero exactly when some directory's manifest has an error;
\* with warnings only, however many, it is 0.
C1_ExitStatusIffError ==
    pc = "exited" =>
        /\ (exit_status # 0) <=>
               \E k \in 1..Len(plugins_dir) :
                   /\ HasManifest(k)
                   /\ validate_plugin_manifest(plugins_dir[k].manifest).errors # <<>>
        /\ (exit_status # 0) <=> (all_errors # <<>>)
        /\ exit_status \in {0, 1}

\* A run that ends with two or more warnings, no error, and status 0.
C1_Witness ==
    /\ pc = "exited"
    /\ Len(all_warnings) >= 2
    /\ all_errors = <<>>
    /\ exit_status = 0

\* "a non-negative integer" as C6 words the rule: int() accepts the segment
\* and the number it gives is not below zero.
NonNegativeInteger(part) ==
    /\ IntParses(part)
    /\ ~(Head(RStrip(LStrip(part))) = "-" /\ \E i \in 1..Len(part) : part[i] \in Digits \ {"0"})

Dots(s) == Cardinality({i \in 1..Len(s) : s[i] = "."})

\* The rule of C6 on a version string: at least three segments, the first
\* three non-negative integers.
NumericTripletPrefix(version) ==
    /\ Dots(version) >= 2
    /\ \A i \in 1..3 : NonNegativeInteger(Split(version, ".")[i])

\* C6: for a manifest with a version string, a version warning is recorded
\* exactly when the version does not start with three dot-separated
\* non-negative integers; it is never an error, and a manifest whose only
\* issue is the version leaves the run passing.
C6_VersionWarningIffNotTriplet ==
    (ReturnedForObject /\ Has(LastData, "version") /\ IsStr(LastData["version"])) =>
        /\ (VersionWarning(LastData["version"]) \in Range(warnings))
               <=> ~NumericTripletPrefix(LastData["version"].s)
        /\ \A i \in 1..Len(errors) : "version" \notin DOMAIN errors[i]
        /\ (pc = "exited" /\ Len(plugins_dir) = 1 /\ Len(warnings) <= 1
            /\ Range(warnings) \subseteq {VersionWarning(LastData["version"])})
               => exit_status = 0

C8_IdErrorIffFewerThanThreeSegments ==
    (ReturnedForObject /\ Has(LastData, "id") /\ IsStr(LastData["id"])) =>
        /\ Dots(LastData["id"].s) + 1 < 3 => Count(errors, IdFormatError(LastData["id"])) = 1
        /\ Dots(LastData["id"].s) + 1 >= 3 =>
               \A i \in 1..Len(errors) : errors[i].msg # "Invalid plugin ID format"

\* The id 'a..a', three segments of which one is empty, passes with no error.
C8_Witness ==
    /\ ReturnedForObject
    /\ Has(LastData, "id")
    /\ LastData["id"] = Str(<<"a", ".", ".", "a">>)
    /\ errors = <<>>

\* C9: every directory without plugin.json that the pass has met has added
\* exactly one warning and no error, the pass goes on to the remaining
\* entries, and a run that found nothing but missing manifests exits with 0.
C9_MissingManifestIsOneWarning ==
    /\ \A k \in Range(Processed) :
          Count(all_warnings, MissingManifestWarning(k)) = (IF LacksManifest(k) THEN 1 ELSE 0)
    /\ Len(all_errors) = ErrorsIn(Processed)
    /\ pc = "exited" => Range(Processed) = 1..Len(plugins_dir)
    /\ (pc = "exited" /\ \A k \in 1..Len(plugins_dir) : ~HasManifest(k)) => exit_status = 0

\* A run over two directories, both without plugin.json, ends with status 0.
C9_Witness ==
    /\ pc = "exited"
    /\ Len(plugins_dir) = 2
    /\ \A k \in 1..2 : LacksManifest(k)
    /\ Len(all_warnings) = 2
    /\ exit_status = 0

\* C10: the total the summary prints is the number of plugin directories the
\* pass checked, also when the plugins root holds entries that are no
\* directories.
C10_TotalIsDirectoriesChecked ==
    pc = "exited" =>
        total_printed = Cardinality({k \in 1..Len(plugins_dir) : plugins_dir[k].is_dir})

(* ------------------- properties of the generator --------------------- *)

DirsOf(dir) == {k \in 1..Len(dir) : dir[k].is_dir}

\* A directory holds a valid manifest: a JSON object in which
\* validate_plugin_manifest finds no error.
ValidDir(k) ==
    /\ plugins_dir[k].is_dir
    /\ plugins_dir[k].manifest.kind = "json"
    /\ ~validate_plugin_manifest(plugins_dir[k].manifest).raised
    /\ validate_plugin_manifest(plugins_dir[k].manifest).errors = <<>>

\* C2: generate_registry() always completes: whatever the manifests hold
\* (a missing name included), no run ends in an exception before the
\* document is written, that is, with registry.json not yet opened.
C2_NeverAbortsBeforeWrite == ~(pc = "raised" /\ file_opens = 0)

\* C3: a registry generated from N directories that each hold a valid manifest
\* has N entries in ascending order of name, one per directory, with
\* repository_url and download_url made from the directory's name and the
\* manifest's version by the two templates.
C3_EntriesSortedWithTemplatedUrls ==
    (pc = "done" /\ \A k \in DirsOf(plugins_dir) : ValidDir(k)) =>
        LET P == registry_file.doc.plugins
        IN  /\ registry_file.kind = "document"
            /\ Len(P) = Cardinality(DirsOf(plugins_dir))
            /\ \A i, j \in 1..Len(P) : i < j => ~StrLess(P[j].name.s, P[i].name.s)
            /\ \A k \in DirsOf(plugins_dir) :
                  LET v == plugins_dir[k].manifest.data["version"].s
                  IN  Cardinality({i \in 1..Len(P) :
                          /\ P[i].repository_url = Str(REPO_URL \o TreePath \o Slug(k))
                          /\ P[i].download_url =
                                Str(REPO_URL \o ReleasePath \o Slug(k) \o DashV \o v \o Slash
                                    \o Slug(k) \o DashV \o v \o TarGz)
                          /\ P[i].version = Str(v)
                          /\ P[i].name = plugins_dir[k].manifest.data["name"]}) = 1

\* A registry of two valid manifests of different names.
C3_Witness ==
    /\ pc = "done"
    /\ Cardinality(DirsOf(plugins_dir)) = 2
    /\ \A k \in DirsOf(plugins_dir) : ValidDir(k)
    /\ registry_file.kind = "document"
    /\ Len(registry_file.doc.plugins) = 2
    /\ registry_file.doc.plugins[1].name # registry_file.doc.plugins[2].name

\* Two registry documents agree in every field but `updated`.
SameButUpdated(a, b) ==
    /\ a.version = b.version
    /\ a.repository = b.repository
    /\ a.plugins = b.plugins

\* C4: a second run over the unchanged plugins root writes the document the
\* run before it wrote, `updated` aside, in whatever order iterdir() yielded
\* the directories in either run.
C4_RerunSameDocument ==
    (pc = "done" /\ run >= 2) =>
        /\ prev_registry.kind = "document"
        /\ SameButUpdated(registry_file.doc, prev_registry.doc)

\* C5: a run opens registry.json for writing at most once, only once every
\* manifest is loaded or skipped and the entries are sorted, and a run that
\* ends in an unhandled exception leaves registry.json as it found it.
C5_NoPartialWrite ==
    /\ file_opens <= 1
    /\ pc \in {"load", "write"} => (file_opens = 0 /\ registry_file = prev_registry)
    /\ pc = "raised" => registry_file = prev_registry

=============================================================================
